---- MODULE Spec2Model ----
(***************************************************************************)
(* dedupe-music: the concurrent fingerprinting pipeline of run()/worker(), *)
(* the composite-key index (fileMap), and the copy / delete / report steps *)
(* that follow the barrier.  Strings are sequences of one-character        *)
(* strings so that filepath.Base, filepath.Ext, strings.ToLower and        *)
(* generateKey are computed, not assumed.                                  *)
(***************************************************************************)
EXTENDS Integers, Sequences, FiniteSets, TLC

\* ------------------------------------------------------------------------
\* Bounds of the model
\* ------------------------------------------------------------------------
\* numWorkers = runtime.NumCPU() is machine dependent: every count 1..MaxWorkers
MaxWorkers == 2
\* fileChan has capacity 100 in the program; the model scales it down so that
\* the producer really blocks on a full channel
ChanCap == 2
\* how many times another process may shrink a file while the run is going on
MaxResizes == 1
\* how many stat / open / read failures the environment may inject into workers
MaxIOFaults == 1
MaxCopies == 3

\* ------------------------------------------------------------------------
\* Program constants
\* ------------------------------------------------------------------------
\* flag.Int64Var(&minSizeMB, "size", 10, ...)
minSizeMB == 10
MB == 1024 * 1024
minSizeBytes == minSizeMB * 1024 * 1024
allowedExts == { <<".", "w", "a", "v">>, <<".", "a", "i", "f">>,
                 <<".", "a", "i", "f", "f">>, <<".", "m", "p", "3">> }

\* ------------------------------------------------------------------------
\* String helpers (path/filepath, strings)
\* ------------------------------------------------------------------------
LastIndex(s, c) ==
    IF \E i \in 1..Len(s) : s[i] = c
    THEN CHOOSE i \in 1..Len(s) : s[i] = c /\ \A j \in (i+1)..Len(s) : s[j] # c
    ELSE 0

\* filepath.Ext: the suffix beginning at the final dot of the final element
Ext(path) ==
    LET dot == LastIndex(path, ".")
        sep == LastIndex(path, "/")
    IN IF dot > sep THEN SubSeq(path, dot, Len(path)) ELSE << >>

RECURSIVE StripSlashes(_)
StripSlashes(path) ==
    IF Len(path) > 0 /\ path[Len(path)] = "/"
    THEN StripSlashes(SubSeq(path, 1, Len(path) - 1))
    ELSE path

\* filepath.Base: the last element of the path
Base(path) ==
    IF path = << >> THEN <<".">>
    ELSE LET p == StripSlashes(path)
         IN IF p = << >> THEN <<"/">>
            ELSE SubSeq(p, LastIndex(p, "/") + 1, Len(p))

LowerChar(c) ==
    CASE c = "A" -> "a" [] c = "F" -> "f" [] c = "I" -> "i" [] c = "M" -> "m"
      [] c = "P" -> "p" [] c = "T" -> "t" [] c = "V" -> "v" [] c = "W" -> "w"
      [] c = "X" -> "x" [] OTHER -> c

\* strings.ToLower
ToLower(s) == [i \in 1..Len(s) |-> LowerChar(s[i])]

\* filepath.Join(dir, name) for clean, slash-free arguments
Join(dir, name) == dir \o <<"/">> \o name

\* strings.TrimSuffix
TrimSuffix(s, suffix) ==
    IF Len(suffix) <= Len(s) /\ SubSeq(s, Len(s) - Len(suffix) + 1, Len(s)) = suffix
    THEN SubSeq(s, 1, Len(s) - Len(suffix))
    ELSE s

\* (mutant: the key is the hash alone)
generateKey_HashOnly(filename, hash) == hash

\* (mutant: the key is the filename alone)
generateKey_NameOnly(filename, hash) == filename

\* generateKey: filename + "|" + hash
generateKey(filename, hash) == filename \o <<"|">> \o hash

\* ------------------------------------------------------------------------
\* The file system the program is run on
\* ------------------------------------------------------------------------
D1 == <<"d", "1">>
D2 == <<"d", "2">>
SUB == <<"d", "2", "/", "s", "u", "b">>
D3 == <<"d", "3">>
D3U == <<"d", "3", "/", "u">>
D3V == <<"d", "3", "/", "v">>
NX == <<"n", "x">>
OUT == <<"o", "u", "t">>

A_MP3 == <<"a", ".", "m", "p", "3">>
B_MP3 == <<"b", ".", "m", "p", "3">>
C_MP3 == <<"c", ".", "m", "p", "3">>
S_MP3 == <<"s", ".", "m", "p", "3">>
N_TXT == <<"n", ".", "t", "x", "t">>
T_WAV == <<"t", ".", "W", "A", "V">>

\* One visit of filepath.Walk.  kind: "file" a regular file, "dir" a
\* directory, "denied" an entry whose lstat fails with os.ErrPermission,
\* "missing" a root that does not exist (lstat fails with ErrNotExist)
Visit(path, kind, content, size) ==
    [path |-> path, kind |-> kind, content |-> content, size |-> size]

\* root -> the visits of filepath.Walk(root, ...), in its lexical order
WalkOrder(root) ==
    CASE root = D1 ->
            << Visit(D1, "dir", "-", 0),
               Visit(Join(D1, A_MP3), "file", "X", 11 * MB),
               Visit(Join(D1, B_MP3), "file", "X", 11 * MB),
               Visit(Join(D1, C_MP3), "file", "Y", 11 * MB) >>
      [] root = D2 ->
            << Visit(D2, "dir", "-", 0),
               Visit(Join(D2, B_MP3), "file", "X", 12 * MB),
               Visit(Join(D2, N_TXT), "file", "Y", 12 * MB),
               Visit(Join(D2, <<"p">>), "denied", "-", 0),
               Visit(Join(D2, S_MP3), "file", "Y", 9 * MB),
               Visit(SUB, "dir", "-", 0),
               Visit(Join(SUB, T_WAV), "file", "Y", 12 * MB),
               Visit(Join(D2, T_WAV), "file", "Y", 12 * MB) >>
      [] root = SUB ->
            << Visit(SUB, "dir", "-", 0),
               Visit(Join(SUB, T_WAV), "file", "Y", 12 * MB) >>
      [] root = D3 ->
            << Visit(D3, "dir", "-", 0),
               Visit(Join(D3, T_WAV), "file", "Y", 12 * MB),
               Visit(D3U, "dir", "-", 0),
               Visit(Join(D3U, T_WAV), "file", "Y", 12 * MB),
               Visit(D3V, "dir", "-", 0),
               Visit(Join(D3V, T_WAV), "file", "Y", 12 * MB) >>
      [] OTHER -> << Visit(root, "missing", "-", 0) >>

Range(s) == {s[i] : i \in 1..Len(s)}

AllVisits == Range(WalkOrder(D1)) \cup Range(WalkOrder(D2)) \cup Range(WalkOrder(D3))
FileVisits == {v \in AllVisits : v.kind = "file"}
AllPaths == {v.path : v \in FileVisits}
VisitOf(path) == CHOOSE v \in FileVisits : v.path = path

\* crypto/md5 + hex.EncodeToString, on the two contents of this file system
MD5Hex(content) ==
    CASE content = "X" -> <<"0", "2", "1", "2">>
      [] content = "Y" -> <<"5", "7", "c", "e">>
      [] OTHER -> <<"d", "4", "1", "d">>

\* ------------------------------------------------------------------------
\* State
\* ------------------------------------------------------------------------
VARIABLES
    osArgs,             \* "none": no arguments, "help": -h / -help given, "flags"
    sourceDirs,         \* DirList built by -s / -source-dir
    targetDir,          \* -t, << >> when not given
    deleteSourceFiles,  \* -delete-source-files
    numWorkers,         \* runtime.NumCPU()
    stdinLine,          \* the line the user types at the confirmation prompt
    mainpc,             \* where main() / run() is
    exitCode,           \* os.Exit status, -1 while the process runs
    dirIdx, visitIdx,   \* position of the walk: source directory, visit in it
    fileChan,           \* buffered channel of paths
    chanClosed,         \* close(fileChan) has happened
    wg,                 \* sync.WaitGroup counter
    fileMap,            \* key -> root FileInfo
    fileMapMutex,       \* 0 when unlocked, else the worker holding it
    wpc,                \* where each worker is
    wcur,               \* the item a worker received
    wsize, whash,       \* a worker's locals size, hash
    wexists,            \* a worker's local "exists" of the map lookup
    disk,               \* path -> [exists, size] of the regular files
    output,             \* run's output slice: the roots, in map iteration order
    targetFiles,        \* the target directory: file name -> [src, content]
    delIdx,             \* deleteFiles' position in the order it removes paths
    report,             \* what dedupe-music.json holds
    reportWritten,      \* writeJSONToFile has succeeded
    hist,               \* history: per enqueued item, receives / mutations / failure
    resizes, faults,    \* how often the environment has interfered
    runErr              \* the error run() returned to main, "nil" if none

cfgVars == <<osArgs, sourceDirs, targetDir, deleteSourceFiles, numWorkers, stdinLine>>
walkVars == <<dirIdx, visitIdx>>
workerVars == <<wpc, wcur, wsize, whash, wexists>>
envVars == <<resizes, faults>>
postVars == <<output, targetFiles, delIdx, report, reportWritten>>
vars == <<cfgVars, mainpc, exitCode, walkVars, fileChan, chanClosed, wg, fileMap,
          fileMapMutex, workerVars, disk, postVars, hist, envVars, runErr>>

Workers == 1..MaxWorkers
NoItem == [id |-> 0, path |-> << >>]
EmptyMap == [k \in {} |-> NoItem]

SourceDirChoices ==
    { << >>, <<D1>>, <<D2>>, <<D3>>, <<SUB, SUB>>, <<NX, D1>> }

Init ==
    /\ osArgs \in {"none", "help", "flags"}
    /\ sourceDirs \in SourceDirChoices
    /\ targetDir \in {<< >>, OUT}
    /\ deleteSourceFiles \in BOOLEAN
    /\ numWorkers \in 1..MaxWorkers
    /\ stdinLine \in {"permanent", "no", ""}
    \* nothing is typed unless the confirmation prompt is shown
    /\ (stdinLine = "") <=> ~(osArgs = "flags" /\ sourceDirs # << >> /\ deleteSourceFiles)
    \* no arguments at all means no flags at all
    /\ osArgs = "none" =>
          sourceDirs = << >> /\ targetDir = << >> /\ ~deleteSourceFiles
    /\ mainpc = "main"
    /\ exitCode = -1
    /\ dirIdx = 1 /\ visitIdx = 1
    /\ fileChan = << >>
    /\ chanClosed = FALSE
    /\ wg = 0
    /\ fileMap = EmptyMap
    /\ fileMapMutex = 0
    /\ wpc = [w \in Workers |-> "unborn"]
    /\ wcur = [w \in Workers |-> NoItem]
    /\ wsize = [w \in Workers |-> 0]
    /\ whash = [w \in Workers |-> << >>]
    /\ wexists = [w \in Workers |-> FALSE]
    /\ disk = [p \in AllPaths |-> [exists |-> TRUE, size |-> VisitOf(p).size]]
    /\ output = << >>
    /\ targetFiles = EmptyMap
    /\ delIdx = 1
    /\ report = << >>
    /\ reportWritten = FALSE
    /\ hist = << >>
    /\ resizes = 0 /\ faults = 0
    /\ runErr = "nil"

Alive == exitCode = -1

\* os.Exit(code); err is what run() returned, "nil" when main exits without
\* calling run or run succeeds
Exit(code, err) == /\ mainpc' = "exited"
                   /\ exitCode' = code
                   /\ runErr' = err

\* ------------------------------------------------------------------------
\* main()
\* ------------------------------------------------------------------------
\* len(os.Args) == 1 || containsHelpFlag(): usage, os.Exit(0)
MainUsage ==
    /\ mainpc = "main"
    /\ osArgs \in {"none", "help"}
    /\ Exit(0, "nil")
    /\ UNCHANGED <<cfgVars, walkVars, fileChan, chanClosed, wg, fileMap,
                   fileMapMutex, workerVars, disk, postVars, hist, envVars>>

\* (mutant: the missing source directories end the program with status 0)
MainNoSourceDirs_ExitsZero ==
    /\ mainpc = "main"
    /\ osArgs = "flags"
    /\ Len(sourceDirs) = 0
    /\ Exit(0, "nil")
    /\ UNCHANGED <<cfgVars, walkVars, fileChan, chanClosed, wg, fileMap,
                   fileMapMutex, workerVars, disk, postVars, hist, envVars>>

\* len(sourceDirs) == 0: error, usage, os.Exit(1)
MainNoSourceDirs ==
    /\ mainpc = "main"
    /\ osArgs = "flags"
    /\ Len(sourceDirs) = 0
    /\ Exit(1, "nil")
    /\ UNCHANGED <<cfgVars, walkVars, fileChan, chanClosed, wg, fileMap,
                   fileMapMutex, workerVars, disk, postVars, hist, envVars>>

\* deleteSourceFiles and the typed line is not "permanent": os.Exit(1)
MainNotConfirmed ==
    /\ mainpc = "main"
    /\ osArgs = "flags"
    /\ Len(sourceDirs) # 0
    /\ deleteSourceFiles
    /\ stdinLine # "permanent"
    /\ Exit(1, "nil")
    /\ UNCHANGED <<cfgVars, walkVars, fileChan, chanClosed, wg, fileMap,
                   fileMapMutex, workerVars, disk, postVars, hist, envVars>>

\* (mutant: run is called without looking at the typed line)
MainCallsRun_NoConfirm ==
    /\ mainpc = "main"
    /\ osArgs = "flags"
    /\ Len(sourceDirs) # 0
    /\ mainpc' = "run"
    /\ UNCHANGED <<cfgVars, runErr, exitCode, walkVars, fileChan, chanClosed, wg,
                   fileMap, fileMapMutex, workerVars, disk, postVars, hist, envVars>>

\* main calls run()
MainCallsRun ==
    /\ mainpc = "main"
    /\ osArgs = "flags"
    /\ Len(sourceDirs) # 0
    /\ deleteSourceFiles => stdinLine = "permanent"
    /\ mainpc' = "run"
    /\ UNCHANGED <<cfgVars, runErr, exitCode, walkVars, fileChan, chanClosed, wg, fileMap,
                   fileMapMutex, workerVars, disk, postVars, hist, envVars>>

\* ------------------------------------------------------------------------
\* run(): set-up, worker pool, walk, barrier
\* ------------------------------------------------------------------------
\* os.MkdirAll(targetDir) fails: run returns the error, main exits 1
RunMkdirFails ==
    /\ mainpc = "run"
    /\ targetDir # << >>
    /\ Exit(1, "mkdir")
    /\ UNCHANGED <<cfgVars, walkVars, fileChan, chanClosed, wg, fileMap,
                   fileMapMutex, workerVars, disk, postVars, hist, envVars>>

\* the index, the channel and the pool: wg.Add(1); go worker(...) numWorkers times
RunStartsWorkers ==
    /\ mainpc = "run"
    /\ wg' = wg + numWorkers
    /\ wpc' = [w \in Workers |-> IF w <= numWorkers THEN "recv" ELSE "unborn"]
    /\ mainpc' = "walk"
    /\ UNCHANGED <<cfgVars, runErr, exitCode, walkVars, fileChan, chanClosed, fileMap,
                   fileMapMutex, wcur, wsize, whash, wexists, disk, postVars, hist,
                   envVars>>

CurVisit == WalkOrder(sourceDirs[dirIdx])[visitIdx]

\* allowedExts[strings.ToLower(filepath.Ext(info.Name()))], per regular file
AllowedPaths == {p \in AllPaths : ToLower(Ext(Base(p))) \in allowedExts}

\* the walk function's filter: a regular file of at least minSizeBytes whose
\* lower-cased extension is allowed
IsCandidate(v) ==
    /\ v.kind = "file"
    /\ ~(disk[v.path].size < minSizeBytes)
    /\ v.path \in AllowedPaths

WalkAdvance ==
    IF visitIdx < Len(WalkOrder(sourceDirs[dirIdx]))
    THEN /\ visitIdx' = visitIdx + 1
         /\ UNCHANGED <<dirIdx, mainpc>>
    ELSE /\ visitIdx' = 1
         /\ dirIdx' = dirIdx + 1
         /\ mainpc' = IF dirIdx < Len(sourceDirs) THEN "walk" ELSE "close"

\* one call of the walk function that sends nothing: a directory, a
\* permission error (swallowed), a file the filter rejects
WalkSkips ==
    /\ mainpc = "walk"
    /\ CurVisit.kind # "missing"
    /\ ~IsCandidate(CurVisit)
    /\ WalkAdvance
    /\ UNCHANGED <<cfgVars, runErr, exitCode, fileChan, chanClosed, wg, fileMap,
                   fileMapMutex, workerVars, disk, postVars, hist, envVars>>

\* fileChan <- path: blocks while the channel is full
WalkSends ==
    /\ mainpc = "walk"
    /\ IsCandidate(CurVisit)
    /\ Len(fileChan) < ChanCap
    /\ fileChan' = Append(fileChan, [id |-> Len(hist) + 1, path |-> CurVisit.path])
    /\ hist' = Append(hist, [path |-> CurVisit.path, recv |-> 0, mut |-> 0,
                             failed |-> "no"])
    /\ WalkAdvance
    /\ UNCHANGED <<cfgVars, runErr, exitCode, chanClosed, wg, fileMap,
                   fileMapMutex, workerVars, disk, postVars, envVars>>

\* the walk function returns a non-permission error: filepath.Walk returns
\* it, run returns "error walking directory", main exits 1
WalkFails ==
    /\ mainpc = "walk"
    /\ CurVisit.kind = "missing"
    /\ Exit(1, "walk")
    /\ UNCHANGED <<cfgVars, walkVars, fileChan, chanClosed, wg, fileMap,
                   fileMapMutex, workerVars, disk, postVars, hist, envVars>>

\* (mutant: run goes to wg.Wait() without close(fileChan))
CloseChan_Forgotten ==
    /\ mainpc = "close"
    /\ mainpc' = "wait"
    /\ UNCHANGED <<cfgVars, runErr, exitCode, walkVars, fileChan, chanClosed, wg,
                   fileMap, fileMapMutex, workerVars, disk, postVars, hist, envVars>>

\* close(fileChan)
CloseChan ==
    /\ mainpc = "close"
    /\ chanClosed' = TRUE
    /\ mainpc' = "wait"
    /\ UNCHANGED <<cfgVars, runErr, exitCode, walkVars, fileChan, wg, fileMap,
                   fileMapMutex, workerVars, disk, postVars, hist, envVars>>

\* (mutant: the barrier does not wait for the workers)
WaitGroupDone_NoWait == TRUE

\* sync.WaitGroup.Wait blocks until the counter is zero
WaitGroupDone == wg = 0

\* wg.Wait() returns once the counter is zero
WaitReturns ==
    /\ mainpc = "wait"
    /\ WaitGroupDone
    /\ mainpc' = "collect"
    /\ UNCHANGED <<cfgVars, runErr, exitCode, walkVars, fileChan, chanClosed, wg, fileMap,
                   fileMapMutex, workerVars, disk, postVars, hist, envVars>>

\* ------------------------------------------------------------------------
\* worker()
\* ------------------------------------------------------------------------
\* (mutant: a receive leaves the item queued)
Dequeue_Peek(ch) == ch

\* a receive removes the head of the channel
Dequeue(ch) == Tail(ch)

\* for path := range fileChan: take the head of the channel
Receive(w) ==
    /\ Alive
    /\ wpc[w] = "recv"
    /\ fileChan # << >>
    /\ wcur' = [wcur EXCEPT ![w] = Head(fileChan)]
    /\ fileChan' = Dequeue(fileChan)
    /\ hist' = [hist EXCEPT ![Head(fileChan).id].recv = @ + 1]
    /\ wpc' = [wpc EXCEPT ![w] = "stat"]
    /\ UNCHANGED <<cfgVars, runErr, mainpc, exitCode, walkVars, chanClosed, wg, fileMap,
                   fileMapMutex, wsize, whash, wexists, disk, postVars, envVars>>

\* the range loop ends on a closed, drained channel; defer wg.Done()
WorkerReturns(w) ==
    /\ Alive
    /\ wpc[w] = "recv"
    /\ fileChan = << >>
    /\ chanClosed
    /\ wpc' = [wpc EXCEPT ![w] = "returned"]
    /\ wg' = wg - 1
    /\ UNCHANGED <<cfgVars, runErr, mainpc, exitCode, walkVars, fileChan, chanClosed, fileMap,
                   fileMapMutex, wcur, wsize, whash, wexists, disk, postVars, hist,
                   envVars>>

\* (mutant: an error branch without its "continue")
ContinuesOnError_FallsThrough == FALSE

\* both error branches of the loop body end in "continue"
ContinuesOnError == TRUE

\* stat or hash has failed: the item is dropped and the loop goes on with
\* the next receive ("next" is the statement after the error branch)
Skip(w, cause, next) ==
    /\ IF ContinuesOnError
       THEN /\ wpc' = [wpc EXCEPT ![w] = "recv"]
            /\ wcur' = [wcur EXCEPT ![w] = NoItem]
            /\ wsize' = [wsize EXCEPT ![w] = 0]
            /\ whash' = [whash EXCEPT ![w] = << >>]
       ELSE /\ wpc' = [wpc EXCEPT ![w] = next]
            /\ UNCHANGED <<wcur, wsize, whash>>
    /\ hist' = [hist EXCEPT ![wcur[w].id].failed = cause]
    /\ faults' = faults + 1
    /\ UNCHANGED <<cfgVars, runErr, mainpc, exitCode, walkVars, fileChan, chanClosed, wg,
                   fileMap, fileMapMutex, wexists, disk, postVars, resizes>>

\* info, err := os.Stat(path); size := info.Size()
Stat(w) ==
    /\ Alive
    /\ wpc[w] = "stat"
    /\ wsize' = [wsize EXCEPT ![w] = disk[wcur[w].path].size]
    /\ wpc' = [wpc EXCEPT ![w] = "hash"]
    /\ UNCHANGED <<cfgVars, runErr, mainpc, exitCode, walkVars, fileChan, chanClosed, wg,
                   fileMap, fileMapMutex, wcur, whash, wexists, disk, postVars, hist,
                   envVars>>

\* os.Stat fails: message on stderr, continue
StatFails(w) ==
    /\ Alive
    /\ wpc[w] = "stat"
    /\ faults < MaxIOFaults
    /\ Skip(w, "stat", "hash")

\* hash, err := fileHash(path)
Hash(w) ==
    /\ Alive
    /\ wpc[w] = "hash"
    /\ whash' = [whash EXCEPT ![w] = MD5Hex(VisitOf(wcur[w].path).content)]
    /\ wpc' = [wpc EXCEPT ![w] = "lock"]
    /\ UNCHANGED <<cfgVars, runErr, mainpc, exitCode, walkVars, fileChan, chanClosed, wg,
                   fileMap, fileMapMutex, wcur, wsize, wexists, disk, postVars, hist,
                   envVars>>

\* fileHash fails (open or read): message on stderr, continue
HashFails(w) ==
    /\ Alive
    /\ wpc[w] = "hash"
    /\ faults < MaxIOFaults
    /\ Skip(w, "hash", "lock")

\* the FileInfo the worker builds from its locals
NewFileInfo(w) ==
    [Name |-> Base(wcur[w].path), Path |-> wcur[w].path, Hash |-> whash[w],
     Size |-> wsize[w], Children |-> << >>]

KeyOf(w) == generateKey(Base(wcur[w].path), whash[w])

\* (mutant: the check-then-act is not guarded by the mutex)
CanLock_NoMutex(w) == TRUE

\* sync.Mutex: Lock blocks until the mutex is free
CanLock(w) == fileMapMutex = 0

\* fileMapMutex.Lock()
Lock(w) ==
    /\ Alive
    /\ wpc[w] = "lock"
    /\ CanLock(w)
    /\ fileMapMutex' = w
    /\ wpc' = [wpc EXCEPT ![w] = "lookup"]
    /\ UNCHANGED <<cfgVars, runErr, mainpc, exitCode, walkVars, fileChan, chanClosed, wg,
                   fileMap, wcur, wsize, whash, wexists, disk, postVars, hist, envVars>>

\* the check of the check-then-act: existingFile, exists := (*fileMap)[key]
Lookup(w) ==
    /\ Alive
    /\ wpc[w] = "lookup"
    /\ wexists' = [wexists EXCEPT ![w] = KeyOf(w) \in DOMAIN fileMap]
    /\ wpc' = [wpc EXCEPT ![w] = "store"]
    /\ UNCHANGED <<cfgVars, runErr, mainpc, exitCode, walkVars, fileChan, chanClosed, wg,
                   fileMap, fileMapMutex, wcur, wsize, whash, disk, postVars, hist,
                   envVars>>

\* (mutant: a record whose key is present replaces the root)
Upsert_Overwrite(map, key, exists, fileInfo) ==
    [k \in DOMAIN map \cup {key} |-> IF k = key THEN fileInfo ELSE map[k]]

\* (mutant: the appended record takes the root into its own Children)
Upsert_ChildAdopts(map, key, exists, fileInfo) ==
    IF exists
    THEN [map EXCEPT ![key].Children =
             Append(@, [fileInfo EXCEPT !.Children = <<map[key]>>])]
    ELSE [k \in DOMAIN map \cup {key} |-> IF k = key THEN fileInfo ELSE map[k]]

\* (mutant: a later record is put in front of the root's Children)
Upsert_Prepend(map, key, exists, fileInfo) ==
    IF exists
    THEN [map EXCEPT ![key].Children = <<fileInfo>> \o @]
    ELSE [k \in DOMAIN map \cup {key} |-> IF k = key THEN fileInfo ELSE map[k]]

\* the two branches of the if: append to the root's Children, or insert
Upsert(map, key, exists, fileInfo) ==
    IF exists
    THEN [map EXCEPT ![key].Children = Append(@, fileInfo)]
    ELSE [k \in DOMAIN map \cup {key} |-> IF k = key THEN fileInfo ELSE map[k]]

\* the act of the check-then-act: append to Children, or insert the root
Store(w) ==
    /\ Alive
    /\ wpc[w] = "store"
    /\ fileMap' = Upsert(fileMap, KeyOf(w), wexists[w], NewFileInfo(w))
    /\ hist' = [hist EXCEPT ![wcur[w].id].mut = @ + 1]
    /\ wpc' = [wpc EXCEPT ![w] = "unlock"]
    /\ UNCHANGED <<cfgVars, runErr, mainpc, exitCode, walkVars, fileChan, chanClosed, wg,
                   fileMapMutex, wcur, wsize, whash, wexists, disk, postVars, envVars>>

\* (mutant: the loop body ends without fileMapMutex.Unlock())
Unlock_KeepsLock(w) ==
    /\ Alive
    /\ wpc[w] = "unlock"
    /\ wpc' = [wpc EXCEPT ![w] = "recv"]
    /\ wcur' = [wcur EXCEPT ![w] = NoItem]
    /\ wsize' = [wsize EXCEPT ![w] = 0]
    /\ whash' = [whash EXCEPT ![w] = << >>]
    /\ wexists' = [wexists EXCEPT ![w] = FALSE]
    /\ UNCHANGED <<cfgVars, runErr, mainpc, exitCode, walkVars, fileChan, chanClosed,
                   wg, fileMap, fileMapMutex, disk, postVars, hist, envVars>>

\* fileMapMutex.Unlock(), then back to the range loop
Unlock(w) ==
    /\ Alive
    /\ wpc[w] = "unlock"
    /\ fileMapMutex' = 0
    /\ wpc' = [wpc EXCEPT ![w] = "recv"]
    /\ wcur' = [wcur EXCEPT ![w] = NoItem]
    /\ wsize' = [wsize EXCEPT ![w] = 0]
    /\ whash' = [whash EXCEPT ![w] = << >>]
    /\ wexists' = [wexists EXCEPT ![w] = FALSE]
    /\ UNCHANGED <<cfgVars, runErr, mainpc, exitCode, walkVars, fileChan, chanClosed, wg,
                   fileMap, disk, postVars, hist, envVars>>

\* ------------------------------------------------------------------------
\* The environment: another process truncates a file after the walk has
\* sent its path and before a worker has stat'ed it (a truncation before the
\* walk makes the file one the filter rejects, one after the stat is not
\* seen by the run)
\* ------------------------------------------------------------------------
InFlight ==
    {fileChan[i].path : i \in 1..Len(fileChan)}
    \cup {wcur[w].path : w \in {x \in 1..MaxWorkers : wpc[x] = "stat"}}

EnvShrinks(p) ==
    /\ Alive
    /\ p \in InFlight
    /\ resizes < MaxResizes
    /\ disk[p].exists
    /\ ~(disk[p].size < minSizeBytes)
    /\ disk' = [disk EXCEPT ![p].size = 3 * MB]
    /\ resizes' = resizes + 1
    /\ UNCHANGED <<cfgVars, runErr, mainpc, exitCode, walkVars, fileChan, chanClosed, wg,
                   fileMap, fileMapMutex, workerVars, postVars, hist, faults>>

\* ------------------------------------------------------------------------
\* run() after the barrier: output list and copies, deletion, report
\* ------------------------------------------------------------------------
Digit(n) ==
    CASE n = 0 -> "0" [] n = 1 -> "1" [] n = 2 -> "2" [] n = 3 -> "3" [] n = 4 -> "4"
      [] n = 5 -> "5" [] n = 6 -> "6" [] n = 7 -> "7" [] n = 8 -> "8" [] OTHER -> "9"

\* fmt.Sprintf("%d", n) for n >= 0
RECURSIVE Itoa(_)
Itoa(n) == IF n < 10 THEN <<Digit(n)>> ELSE Itoa(n \div 10) \o <<Digit(n % 10)>>

\* fmt.Sprintf("%s(%d)%s", TrimSuffix(filename, Ext(filename)), i, Ext(filename))
Numbered(filename, i) ==
    TrimSuffix(filename, Ext(filename)) \o <<"(">> \o Itoa(i) \o <<")">> \o Ext(filename)

\* (mutant: the loop that looks for a free name is missing)
Probe_FirstName(files, destDir, filename, destPath, i) == destPath

\* copyFile's loop: the first of filename, name(1).ext, name(2).ext, ... that
\* os.Stat reports as not existing in destDir
RECURSIVE Probe(_, _, _, _, _)
Probe(files, destDir, filename, destPath, i) ==
    IF destPath \notin DOMAIN files THEN destPath
    ELSE Probe(files, destDir, filename, Join(destDir, Numbered(filename, i)), i + 1)

DestPath(files, srcPath, destDir) ==
    Probe(files, destDir, Base(srcPath), Join(destDir, Base(srcPath)), 1)

\* copyFile: the target directory after a successful copy
copyFile(files, srcPath, destDir) ==
    LET dest == DestPath(files, srcPath, destDir)
    IN [d \in DOMAIN files \cup {dest} |->
          IF d = dest THEN [src |-> srcPath, content |-> VisitOf(srcPath).content]
          ELSE files[d]]

\* (mutant: the range does not advance and yields the same entry again)
Collected_None == {}

\* the keys the range over fileMap has already produced
Collected == {generateKey(output[i].Name, output[i].Hash) : i \in 1..Len(output)}

\* one iteration of "for _, fileInfo := range fileMap": append to output and,
\* with a target directory, copy the root.  Map iteration order is arbitrary.
CollectRoot ==
    /\ mainpc = "collect"
    /\ \E k \in DOMAIN fileMap \ Collected :
          /\ output' = Append(output, fileMap[k])
          /\ targetFiles' = IF targetDir # << >>
                            THEN copyFile(targetFiles, fileMap[k].Path, targetDir)
                            ELSE targetFiles
    /\ UNCHANGED <<cfgVars, runErr, mainpc, exitCode, walkVars, fileChan, chanClosed, wg,
                   fileMap, fileMapMutex, workerVars, disk, delIdx, report,
                   reportWritten, hist, envVars>>

\* copyFile returns an error: run returns it, main exits 1
CollectCopyFails ==
    /\ mainpc = "collect"
    /\ targetDir # << >>
    /\ \E k \in DOMAIN fileMap \ Collected : output' = Append(output, fileMap[k])
    /\ Exit(1, "copy")
    /\ UNCHANGED <<cfgVars, walkVars, fileChan, chanClosed, wg, fileMap,
                   fileMapMutex, workerVars, disk, targetFiles, delIdx, report,
                   reportWritten, hist, envVars>>

\* the range is over: "if deleteSourceFiles" chooses what follows
CollectDone ==
    /\ mainpc = "collect"
    /\ DOMAIN fileMap \subseteq Collected
    /\ mainpc' = IF deleteSourceFiles THEN "delete" ELSE "write"
    /\ UNCHANGED <<cfgVars, runErr, exitCode, walkVars, fileChan, chanClosed, wg, fileMap,
                   fileMapMutex, workerVars, disk, postVars, hist, envVars>>

\* (mutant: deleteFiles without its inner loop over Children)
DeletionOrder_RootsOnly(files) == [i \in 1..Len(files) |-> files[i].Path]

\* the paths deleteFiles removes, in its order: each root, then its children
RECURSIVE DeletionOrder(_)
DeletionOrder(files) ==
    IF files = << >> THEN << >>
    ELSE <<files[1].Path>>
         \o [i \in 1..Len(files[1].Children) |-> files[1].Children[i].Path]
         \o DeletionOrder(Tail(files))

\* removeFile: os.RemoveAll(path) succeeds (also when the path is already gone)
RemoveFile ==
    /\ mainpc = "delete"
    /\ delIdx <= Len(DeletionOrder(output))
    /\ disk' = [disk EXCEPT ![DeletionOrder(output)[delIdx]].exists = FALSE]
    /\ delIdx' = delIdx + 1
    /\ UNCHANGED <<cfgVars, runErr, mainpc, exitCode, walkVars, fileChan, chanClosed, wg,
                   fileMap, fileMapMutex, workerVars, output, targetFiles, report,
                   reportWritten, hist, envVars>>

\* removeFile returns an error: deleteFiles returns at once, run returns the
\* error, main exits 1
RemoveFails ==
    /\ mainpc = "delete"
    /\ delIdx <= Len(DeletionOrder(output))
    /\ Exit(1, "delete")
    /\ UNCHANGED <<cfgVars, walkVars, fileChan, chanClosed, wg, fileMap,
                   fileMapMutex, workerVars, disk, postVars, hist, envVars>>

\* deleteFiles returns nil
DeleteReturns ==
    /\ mainpc = "delete"
    /\ delIdx > Len(DeletionOrder(output))
    /\ mainpc' = "write"
    /\ UNCHANGED <<cfgVars, runErr, exitCode, walkVars, fileChan, chanClosed, wg, fileMap,
                   fileMapMutex, workerVars, disk, postVars, hist, envVars>>

\* writeJSONToFile succeeds; run returns nil, main exits 0
WriteReport ==
    /\ mainpc = "write"
    /\ report' = output
    /\ reportWritten' = TRUE
    /\ Exit(0, "nil")
    /\ UNCHANGED <<cfgVars, walkVars, fileChan, chanClosed, wg, fileMap,
                   fileMapMutex, workerVars, disk, output, targetFiles, delIdx,
                   hist, envVars>>

\* writeJSONToFile fails: run returns the error, main exits 1
WriteFails ==
    /\ mainpc = "write"
    /\ Exit(1, "write")
    /\ UNCHANGED <<cfgVars, walkVars, fileChan, chanClosed, wg, fileMap,
                   fileMapMutex, workerVars, disk, postVars, hist, envVars>>

\* ------------------------------------------------------------------------
\* Specification
\* ------------------------------------------------------------------------
Next ==
    \/ MainUsage
    \/ MainNoSourceDirs
    \/ MainNotConfirmed
    \/ MainCallsRun
    \/ RunMkdirFails
    \/ RunStartsWorkers
    \/ WalkSkips
    \/ WalkSends
    \/ WalkFails
    \/ CloseChan
    \/ WaitReturns
    \/ \E w \in Workers : Receive(w)
    \/ \E w \in Workers : WorkerReturns(w)
    \/ \E w \in Workers : Stat(w)
    \/ \E w \in Workers : StatFails(w)
    \/ \E w \in Workers : Hash(w)
    \/ \E w \in Workers : HashFails(w)
    \/ \E w \in Workers : Lock(w)
    \/ \E w \in Workers : Lookup(w)
    \/ \E w \in Workers : Store(w)
    \/ \E w \in Workers : Unlock(w)
    \/ \E p \in AllPaths : EnvShrinks(p)
    \/ CollectRoot
    \/ CollectCopyFails
    \/ CollectDone
    \/ RemoveFile
    \/ RemoveFails
    \/ DeleteReturns
    \/ WriteReport
    \/ WriteFails

Spec == Init /\ [][Next]_vars

\* ------------------------------------------------------------------------
\* Fair scheduling: the Go scheduler lets every goroutine that can run take
\* its next step.  The main goroutine's steps from the start of the pool to
\* the return of wg.Wait(), and each worker's steps of its loop; failures
\* and the environment are not forced to happen.
\* ------------------------------------------------------------------------
ProducerStep == RunStartsWorkers \/ WalkSkips \/ WalkSends \/ CloseChan \/ WaitReturns

WorkerStep(w) ==
    \/ Receive(w) \/ WorkerReturns(w) \/ Stat(w) \/ Hash(w)
    \/ Lock(w) \/ Lookup(w) \/ Store(w) \/ Unlock(w)

\* run() up to the return of wg.Wait(): what follows the barrier (copies,
\* deletion, report) and the flags that only it reads are left out
PipelineInit ==
    /\ Init
    /\ osArgs = "flags"
    /\ sourceDirs # << >>
    /\ targetDir = << >>
    /\ ~deleteSourceFiles

PipelineNext ==
    \/ MainCallsRun
    \/ RunStartsWorkers
    \/ WalkSkips
    \/ WalkSends
    \/ WalkFails
    \/ CloseChan
    \/ WaitReturns
    \/ \E w \in Workers : Receive(w)
    \/ \E w \in Workers : WorkerReturns(w)
    \/ \E w \in Workers : Stat(w)
    \/ \E w \in Workers : StatFails(w)
    \/ \E w \in Workers : Hash(w)
    \/ \E w \in Workers : HashFails(w)
    \/ \E w \in Workers : Lock(w)
    \/ \E w \in Workers : Lookup(w)
    \/ \E w \in Workers : Store(w)
    \/ \E w \in Workers : Unlock(w)
    \/ \E p \in AllPaths : EnvShrinks(p)

FairSpec ==
    /\ PipelineInit /\ [][PipelineNext]_vars
    /\ WF_vars(ProducerStep)
    /\ \A w \in Workers : WF_vars(WorkerStep(w))

\* ------------------------------------------------------------------------
\* copyFile on its own, as TestCopyFile calls it: any source file, any
\* number of times up to MaxCopies, into a target directory that is empty or
\* already holds files of an earlier run
\* ------------------------------------------------------------------------
\* a file that was in the target directory before the first call
Earlier == [src |-> << >>, content |-> "Z"]

TargetChoices ==
    { EmptyMap,
      [d \in {Join(OUT, B_MP3)} |-> Earlier],
      [d \in {Join(OUT, B_MP3), Join(OUT, Numbered(B_MP3, 2))} |-> Earlier] }

CopyInit ==
    /\ osArgs = "flags"
    /\ sourceDirs = <<D1>>
    /\ targetDir = OUT
    /\ deleteSourceFiles = FALSE
    /\ numWorkers = 1
    /\ stdinLine = ""
    /\ mainpc = "collect"
    /\ exitCode = -1
    /\ dirIdx = 1 /\ visitIdx = 1
    /\ fileChan = << >>
    /\ chanClosed = TRUE
    /\ wg = 0
    /\ fileMap = EmptyMap
    /\ fileMapMutex = 0
    /\ wpc = [w \in Workers |-> "unborn"]
    /\ wcur = [w \in Workers |-> NoItem]
    /\ wsize = [w \in Workers |-> 0]
    /\ whash = [w \in Workers |-> << >>]
    /\ wexists = [w \in Workers |-> FALSE]
    /\ disk = [p \in AllPaths |-> [exists |-> TRUE, size |-> VisitOf(p).size]]
    /\ output = << >>
    /\ targetFiles \in TargetChoices
    /\ delIdx = 1
    /\ report = << >>
    /\ reportWritten = FALSE
    /\ hist = << >>
    /\ resizes = 0 /\ faults = 0
    /\ runErr = "nil"

\* the target files that copyFile calls have written
Copies == {d \in DOMAIN targetFiles : targetFiles[d].src # << >>}

\* copyFile(srcPath, targetDir, fileInfo) returns nil
CopyCall(srcPath) ==
    /\ Cardinality(Copies) < MaxCopies
    /\ targetFiles' = copyFile(targetFiles, srcPath, targetDir)
    /\ UNCHANGED <<cfgVars, runErr, mainpc, exitCode, walkVars, fileChan, chanClosed,
                   wg, fileMap, fileMapMutex, workerVars, disk, output, delIdx,
                   report, reportWritten, hist, envVars>>

CopyNext == \E srcPath \in AllPaths : CopyCall(srcPath)

CopySpec == CopyInit /\ [][CopyNext]_vars

\* ------------------------------------------------------------------------
\* Vocabulary of the properties
\* ------------------------------------------------------------------------
Ids == 1..Len(hist)
Succeeded == {id \in Ids : hist[id].failed = "no"}
Failed == {id \in Ids : hist[id].failed # "no"}
Queued == {fileChan[i].id : i \in 1..Len(fileChan)}
Holders(id) == {w \in Workers : wcur[w].id = id}

\* the channel is closed and every worker has returned
PoolFinished == chanClosed /\ wg = 0 /\ \A w \in 1..numWorkers : wpc[w] = "returned"

\* run() is past wg.Wait(): it ranges over fileMap, deletes or writes
PostPcs == {"collect", "delete", "write"}

RECURSIVE SumOfMut(_)
SumOfMut(ids) ==
    IF ids = {} THEN 0
    ELSE LET id == CHOOSE i \in ids : TRUE
         IN hist[id].mut + SumOfMut(ids \ {id})

\* number of records of the forest held by a map: roots plus children
RECURSIVE NumRecords(_, _)
NumRecords(map, keys) ==
    IF keys = {} THEN 0
    ELSE LET k == CHOOSE x \in keys : TRUE
         IN 1 + Len(map[k].Children) + NumRecords(map, keys \ {k})

\* the paths of one root's group: the root and its children
GroupPaths(root) ==
    {root.Path} \cup {root.Children[i].Path : i \in 1..Len(root.Children)}

\* how many records of a list of roots (roots or children) carry the path
CountIn(files, path) ==
    Cardinality({i \in 1..Len(files) : files[i].Path = path})
    + Cardinality(UNION { { <<i, j>> : j \in {c \in 1..Len(files[i].Children) :
                                                files[i].Children[c].Path = path} } :
                          i \in 1..Len(files) })

\* how many successfully fingerprinted items carry the path
CountSucceeded(path) == Cardinality({id \in Succeeded : hist[id].path = path})

\* ------------------------------------------------------------------------
\* C1: every path sent on the channel is received by exactly one worker
\* exactly once (a path is either still queued and unreceived, or received
\* once and no longer queued; at most one worker holds it), every received
\* path mutates the index at most once and never after a stat or hash
\* failure, the index holds exactly one record per mutation, and once the
\* pool has finished every path has been received once and has mutated the
\* index once if it was fingerprinted and not at all if stat or hash failed.
\* ------------------------------------------------------------------------
C1_ExactlyOnce ==
    /\ \A id \in Ids :
          /\ hist[id].recv <= 1
          /\ hist[id].mut <= 1
          /\ (hist[id].recv = 0) <=> (id \in Queued)
          /\ Cardinality(Holders(id)) <= 1
          /\ hist[id].failed # "no" => hist[id].mut = 0
          /\ hist[id].mut = 1 => hist[id].recv = 1
          /\ PoolFinished =>
                /\ hist[id].recv = 1
                /\ hist[id].mut = IF hist[id].failed = "no" THEN 1 ELSE 0
    /\ Len(fileChan) = Cardinality(Queued)
    /\ NumRecords(fileMap, DOMAIN fileMap) = SumOfMut(Ids)

\* the pool has finished a run of two workers in which one path failed, one
\* became a root and one became a child
C1_Witness ==
    /\ PoolFinished
    /\ numWorkers = 2
    /\ Failed # {}
    /\ \E k \in DOMAIN fileMap : Len(fileMap[k].Children) = 1

\* ------------------------------------------------------------------------
\* C2: the check-then-act on the index is atomic under every interleaving:
\* when a worker acts, the "exists" it read is still what the map says, so
\* no record overwrites a root of the same key (the forest always holds one
\* record per store); and once all workers have finished the number of
\* records in the forest, roots plus children, equals the number of paths
\* fingerprinted successfully.
\* ------------------------------------------------------------------------
C2_AtomicUpsert ==
    /\ \A w \in Workers :
          wpc[w] = "store" => (wexists[w] <=> KeyOf(w) \in DOMAIN fileMap)
    /\ NumRecords(fileMap, DOMAIN fileMap)
          = Cardinality({id \in Ids : hist[id].mut >= 1})
    /\ PoolFinished => NumRecords(fileMap, DOMAIN fileMap) = Cardinality(Succeeded)

\* two workers contend for the same key: one is between its check and its
\* act on a key that is absent, the other waits for the lock with that key
C2_Witness ==
    \E w1, w2 \in Workers :
        /\ w1 # w2
        /\ wpc[w1] = "store" /\ ~wexists[w1]
        /\ wpc[w2] = "lock"
        /\ KeyOf(w1) = KeyOf(w2)

\* ------------------------------------------------------------------------
\* C3: run() builds the output list, copies, deletes and writes the report
\* only after close(fileChan) and after every worker has returned: in every
\* state in which the main routine is in, or has been in, the
\* post-processing phase, the channel is closed and drained, no worker is
\* anywhere in its loop, and the mutex is free.
\* ------------------------------------------------------------------------
PostProcessingStarted ==
    \/ mainpc \in PostPcs
    \/ output # << >>
    \/ targetFiles # EmptyMap
    \/ delIdx > 1
    \/ \E p \in AllPaths : ~disk[p].exists
    \/ reportWritten

C3_Barrier ==
    PostProcessingStarted =>
        /\ chanClosed
        /\ fileChan = << >>
        /\ \A w \in 1..numWorkers : wpc[w] = "returned"
        /\ fileMapMutex = 0

\* the main routine ranges over an index that two workers have filled
C3_Witness ==
    /\ mainpc = "collect"
    /\ numWorkers = 2
    /\ Cardinality(DOMAIN fileMap) >= 2
    /\ output # << >>

\* ------------------------------------------------------------------------
\* C4: the final grouping is a function of the set of successfully
\* fingerprinted files alone: once the pool has finished, the groups of the
\* forest (a root with its children, as sets of paths) are exactly the
\* classes of "same base name and same content" over the fingerprinted
\* paths, whatever the interleaving and whatever the worker count (only the
\* choice of root and the order of children vary).
\* ------------------------------------------------------------------------
SucceededPaths == {hist[id].path : id \in Succeeded}

SameFile(p, q) ==
    /\ Base(p) = Base(q)
    /\ VisitOf(p).content = VisitOf(q).content

ExpectedGroups ==
    { {q \in SucceededPaths : SameFile(p, q)} : p \in SucceededPaths }

ForestGroups == {GroupPaths(fileMap[k]) : k \in DOMAIN fileMap}

C4_SameGrouping == PoolFinished => ForestGroups = ExpectedGroups

\* two workers have finished, and the file walked later is the root of the
\* file walked earlier: a root choice one worker alone cannot produce
C4_Witness ==
    /\ PoolFinished
    /\ numWorkers = 2
    /\ \E k \in DOMAIN fileMap :
          /\ fileMap[k].Path = Join(D2, T_WAV)
          /\ Len(fileMap[k].Children) = 1
          /\ fileMap[k].Children[1].Path = Join(SUB, T_WAV)
    /\ Cardinality(DOMAIN fileMap) = 2

\* ------------------------------------------------------------------------
\* C5 (as written): a directory with a.mp3 and b.mp3 of content X and c.mp3
\* of content Y, all above the minimum size, gives a report of exactly two
\* roots: one of a.mp3 / b.mp3 with the other as its single duplicate, and
\* c.mp3 without duplicates.
\* ------------------------------------------------------------------------
CleanRun == reportWritten /\ faults = 0 /\ resizes = 0

Separators == {" ", "_", "-", "."}
Letters(name) == SelectSeq(name, LAMBDA c : c \notin Separators)

Matches(a, b) == Cardinality({i \in 1..Len(a) : \E j \in 1..Len(b) : a[i] = b[j]})

MaxLen(a, b) == IF Len(a) > Len(b) THEN Len(a) ELSE Len(b)

\* similarity(nameA, nameB) >= 0.5
Similar(nameA, nameB) ==
    LET a == Letters(nameA)
        b == Letters(nameB)
    IN MaxLen(a, b) > 0 /\ 2 * Matches(a, b) >= MaxLen(a, b)

\* ------------------------------------------------------------------------
\* C6 (as written): after the run no two top-level entries of the report
\* have equal size and filename similarity >= 0.5: such roots have been
\* merged into one.
\* ------------------------------------------------------------------------
C6_Original ==
    reportWritten =>
        \A i, j \in 1..Len(report) :
            i # j => ~( /\ report[i].Size = report[j].Size
                        /\ Similar(report[i].Name, report[j].Name) )

\* ------------------------------------------------------------------------
\* C7 (as written): no record of the final report, root or child, has a
\* recorded size below the minimum or an extension outside the allowed set,
\* also when a file shrinks between the walk and the worker's stat.
\* ------------------------------------------------------------------------
RECURSIVE Flatten(_)
Flatten(files) ==
    IF files = << >> THEN << >>
    ELSE <<files[1]>> \o files[1].Children \o Flatten(Tail(files))

C7_Original ==
    reportWritten =>
        \A r \in Range(Flatten(report)) :
            /\ ~(r.Size < minSizeBytes)
            /\ ToLower(Ext(r.Name)) \in allowedExts

\* ------------------------------------------------------------------------
\* C8: a path whose stat or hash failed never mutates the index and is not
\* carried into the locked section; the worker that dropped it goes on
\* receiving (a worker returns only on a closed, drained channel); and a
\* written report holds, as roots or children, exactly the successfully
\* fingerprinted paths, each as often as it was fingerprinted, and no
\* failed path.
\* ------------------------------------------------------------------------
C8_FailuresSkipped ==
    /\ \A id \in Failed : hist[id].mut = 0 /\ Holders(id) = {}
    /\ \A w \in Workers :
          wpc[w] = "returned" => chanClosed /\ fileChan = << >>
    /\ reportWritten =>
          /\ \A p \in AllPaths : CountIn(report, p) = CountSucceeded(p)
          /\ \A r \in Range(Flatten(report)) : r.Path \in AllPaths

\* one worker, whose first path failed, went on to fingerprint later paths,
\* and the report has been written
C8_Witness ==
    /\ reportWritten
    /\ numWorkers = 1
    /\ 1 \in Failed
    /\ Len(Flatten(report)) >= 2

\* ------------------------------------------------------------------------
\* C9: when deleteFiles has returned without error, no path of the forest,
\* root or child, exists on disk any more.
\* ------------------------------------------------------------------------
DeletionCompleted ==
    /\ deleteSourceFiles
    /\ mainpc \in {"write", "exited"}
    /\ delIdx > Len(DeletionOrder(output))
    /\ Len(output) = Cardinality(DOMAIN fileMap)

C9_AllDeleted ==
    DeletionCompleted =>
        \A k \in DOMAIN fileMap :
            \A p \in GroupPaths(fileMap[k]) : ~disk[p].exists

\* deleteFiles has returned for a forest of two roots, one with a child
C9_Witness ==
    /\ DeletionCompleted
    /\ Cardinality(DOMAIN fileMap) = 2
    /\ \E k \in DOMAIN fileMap : Len(fileMap[k].Children) = 1

\* ------------------------------------------------------------------------
\* C10 (as written): deletion can be run so that only duplicates are
\* removed and every root is preserved.  The program has one deletion
\* switch, -delete-source-files, and no other mode, so the claim is stated
\* of that switch: in a run with deletion enabled no path that is a root of
\* the output is removed from disk.
\* ------------------------------------------------------------------------
C10_Original ==
    deleteSourceFiles =>
        \A i \in 1..Len(output) : disk[output[i].Path].exists

\* ------------------------------------------------------------------------
\* C11 (as written): when the removal of one file fails, deleteFiles still
\* attempts every remaining root and child path: when run has returned the
\* deletion error, the failed removal was the last one of the deletion
\* order, every path before it having been removed.
\* ------------------------------------------------------------------------
C11_Original ==
    runErr = "delete" =>
        /\ delIdx = Len(DeletionOrder(output))
        /\ \A i \in 1..Len(DeletionOrder(output)) :
              i # delIdx => ~disk[DeletionOrder(output)[i]].exists

\* ------------------------------------------------------------------------
\* C12 (as written): a failing copy or removal never ends the run without
\* the report: when the program has exited after copyFile or deleteFiles
\* returned an error, the report file has been written.
\* ------------------------------------------------------------------------
C12_Original ==
    (mainpc = "exited" /\ runErr \in {"copy", "delete"}) => reportWritten

\* ------------------------------------------------------------------------
\* C13 (as written): source files are deleted only after the report has
\* been written: in every state in which some source file has been removed,
\* the report file has been written.
\* ------------------------------------------------------------------------
C13_Original ==
    (\E p \in AllPaths : ~disk[p].exists) => reportWritten

\* ------------------------------------------------------------------------
\* C14: with a target directory, copyFile is called once for each root of
\* the forest and never for a child: no source path is copied twice, every
\* copied source path is the path of a root, and once the range over the
\* index is over without a copy error the set of copied source paths is the
\* set of root paths, one target file per root.  Without a target directory
\* nothing is copied.
\* ------------------------------------------------------------------------
CopiedSources == {targetFiles[d].src : d \in DOMAIN targetFiles}
RootPaths == {fileMap[k].Path : k \in DOMAIN fileMap}
ChildPaths ==
    UNION { {fileMap[k].Children[i].Path : i \in 1..Len(fileMap[k].Children)} :
            k \in DOMAIN fileMap }

\* the range over fileMap has ended and every copyFile call returned nil
CopyStepOver ==
    /\ targetDir # << >>
    /\ \/ mainpc \in {"delete", "write"}
       \/ runErr \in {"delete", "write"}
       \/ reportWritten

C14_RootsCopiedOnce ==
    /\ targetDir = << >> => targetFiles = EmptyMap
    /\ \A d1, d2 \in DOMAIN targetFiles :
          targetFiles[d1].src = targetFiles[d2].src => d1 = d2
    /\ CopiedSources \subseteq RootPaths
    /\ (targetDir # << >> /\ runErr # "copy") =>
          CopiedSources = {output[i].Path : i \in 1..Len(output)}
    /\ CopyStepOver =>
          /\ CopiedSources = RootPaths
          /\ Cardinality(DOMAIN targetFiles) = Cardinality(DOMAIN fileMap)

\* the copy step is over for a forest of two roots, one of which has a
\* child whose path was not copied
C14_Witness ==
    /\ CopyStepOver
    /\ Cardinality(DOMAIN fileMap) = 2
    /\ \E p \in ChildPaths : p \notin CopiedSources
    /\ Cardinality(DOMAIN targetFiles) = 2

\* ------------------------------------------------------------------------
\* C15: copyFile never overwrites a file of the target directory.  Every
\* call leaves each file that was there as it was and adds exactly one file;
\* the file it adds holds the bytes of its own source and is named name.ext,
\* or name(i).ext with name.ext and every name(j).ext, 1 <= j < i, taken; so
\* two sources of the same base filename copied into an empty target
\* directory are name.ext and name(1).ext.
\* ------------------------------------------------------------------------
\* the file copied from src is the first free one of name.ext, name(1).ext, ...
FirstFree(d, src) ==
    \/ d = Join(targetDir, Base(src))
    \/ \E i \in 1..(MaxCopies + 2) :
          /\ d = Join(targetDir, Numbered(Base(src), i))
          /\ Join(targetDir, Base(src)) \in DOMAIN targetFiles
          /\ \A j \in 1..(i - 1) :
                Join(targetDir, Numbered(Base(src), j)) \in DOMAIN targetFiles

C15_Names ==
    /\ \A d \in Copies :
          /\ targetFiles[d].content = VisitOf(targetFiles[d].src).content
          /\ FirstFree(d, targetFiles[d].src)
    /\ \A d \in DOMAIN targetFiles \ Copies : targetFiles[d] = Earlier
    /\ \A s1, s2 \in AllPaths :
          (/\ s1 # s2 /\ Base(s1) = Base(s2)
           /\ Cardinality(DOMAIN targetFiles) = 2 /\ CopiedSources = {s1, s2}) =>
              DOMAIN targetFiles = { Join(targetDir, Base(s1)),
                                     Join(targetDir, Numbered(Base(s1), 1)) }

C15_Step ==
    /\ \A d \in DOMAIN targetFiles :
          d \in DOMAIN targetFiles' /\ targetFiles'[d] = targetFiles[d]
    /\ Cardinality(DOMAIN targetFiles') = Cardinality(DOMAIN targetFiles) + 1

C15_NoOverwrite == [](C15_Names) /\ [][C15_Step]_vars

\* d1/b.mp3 and d2/b.mp3 have been copied into an empty target directory:
\* out/b.mp3 is the first, out/b(1).mp3 the second
C15_Witness ==
    /\ DOMAIN targetFiles = {Join(OUT, B_MP3), Join(OUT, Numbered(B_MP3, 1))}
    /\ targetFiles[Join(OUT, B_MP3)].src = Join(D1, B_MP3)
    /\ targetFiles[Join(OUT, Numbered(B_MP3, 1))].src = Join(D2, B_MP3)

\* ------------------------------------------------------------------------
\* Nothing of run() has happened: no directory visited, no path sent, no
\* worker started, nothing copied, removed or written
\* ------------------------------------------------------------------------
NothingDone ==
    /\ dirIdx = 1 /\ visitIdx = 1
    /\ hist = << >> /\ fileChan = << >> /\ ~chanClosed
    /\ wg = 0 /\ \A w \in Workers : wpc[w] = "unborn"
    /\ fileMap = EmptyMap /\ fileMapMutex = 0
    /\ output = << >> /\ targetFiles = EmptyMap
    /\ delIdx = 1 /\ \A p \in AllPaths : disk[p].exists
    /\ report = << >> /\ ~reportWritten

\* run() has been called
RunInvoked == mainpc \notin {"main", "exited"} \/ ~NothingDone \/ runErr # "nil"

C17_Original ==
    runErr = "walk" => dirIdx = Len(sourceDirs)

\* ------------------------------------------------------------------------
\* C18: with deletion enabled, run is called only after the line typed at
\* the prompt is "permanent"; when the prompt was answered with anything
\* else, nothing of run ever happens (no scan, no worker, no copy, no
\* removal, no report) and the program exits with status 1.
\* ------------------------------------------------------------------------
PromptShown == osArgs = "flags" /\ sourceDirs # << >> /\ deleteSourceFiles

C18_ConfirmedDeletion ==
    deleteSourceFiles =>
        /\ RunInvoked => (PromptShown /\ stdinLine = "permanent")
        /\ (PromptShown /\ stdinLine # "permanent") =>
              /\ ~RunInvoked
              /\ mainpc = "exited" => exitCode = 1

\* the prompt was answered with another word and the program has exited
C18_Witness ==
    /\ PromptShown
    /\ stdinLine = "no"
    /\ mainpc = "exited"

\* ------------------------------------------------------------------------
\* C19: at most one worker holds the index lock, and a worker holds it
\* exactly while it is at the map lookup, the insert / append or the unlock:
\* a worker that receives, stats, hashes, waits for the lock or has returned
\* does not hold it, so the lock is never held across I/O and is released
\* before the next receive.
\* ------------------------------------------------------------------------
LockedPcs == {"lookup", "store", "unlock"}

C19_LockDiscipline ==
    /\ fileMapMutex \in {0} \cup (1..numWorkers)
    /\ \A w \in Workers : (wpc[w] \in LockedPcs) <=> (fileMapMutex = w)
    /\ Cardinality({w \in Workers : wpc[w] \in LockedPcs}) <= 1

\* one worker is inside the locked section while another one hashes a file
C19_Witness ==
    \E w1, w2 \in Workers :
        /\ fileMapMutex = w1
        /\ wpc[w1] = "store"
        /\ wpc[w2] = "hash"

\* ------------------------------------------------------------------------
\* C20: the forest is at most two levels deep and records do not move:
\* no child has children, every stored record is in the forest exactly
\* once, as a root or as a child of one root, and a record that is a child
\* stays that child of that root in every later state (it never becomes a
\* root).
\* ------------------------------------------------------------------------
\* how many records of the forest, roots or children, carry the path
CountInMap(path) ==
    Cardinality({k \in DOMAIN fileMap : fileMap[k].Path = path})
    + Cardinality({kc \in UNION { {<<k, c>> : c \in 1..Len(fileMap[k].Children)} :
                                  k \in DOMAIN fileMap } :
                      fileMap[kc[1]].Children[kc[2]].Path = path})

C20_Flat ==
    /\ \A k \in DOMAIN fileMap :
          \A c \in 1..Len(fileMap[k].Children) :
              fileMap[k].Children[c].Children = << >>
    /\ \A p \in AllPaths :
          CountInMap(p) = Cardinality({id \in Ids : hist[id].path = p /\ hist[id].mut = 1})

C20_ChildStays ==
    \A k \in DOMAIN fileMap :
        /\ k \in DOMAIN fileMap'
        /\ Len(fileMap'[k].Children) >= Len(fileMap[k].Children)
        /\ \A c \in 1..Len(fileMap[k].Children) :
              fileMap'[k].Children[c] = fileMap[k].Children[c]

C20_TwoLevels == [](C20_Flat) /\ [][C20_ChildStays]_vars

\* while the pool is still working, the forest holds a root with a child
\* and a second root
C20_Witness ==
    /\ ~PoolFinished
    /\ Cardinality(DOMAIN fileMap) = 2
    /\ \E k \in DOMAIN fileMap : Len(fileMap[k].Children) = 1

\* ------------------------------------------------------------------------
\* C21: for each key the record whose upsert takes the lock first becomes
\* the root and stays the root; every later record of the key is appended
\* at the end of that root's Children by the worker that holds the lock, so
\* Children are in lock-acquisition order; no step of a worker replaces or
\* removes a root.  With a single worker the lock is taken in the order the
\* paths were sent, so root and children of a key are its stored paths in
\* walk order.
\* ------------------------------------------------------------------------
\* a record without its Children
RootOnly(fileInfo) == [fileInfo EXCEPT !.Children = << >>]

\* the paths of a key's records: the root, then its children in their order
GroupSeq(root) ==
    <<root.Path>> \o [c \in 1..Len(root.Children) |-> root.Children[c].Path]

PathKey(path) == generateKey(Base(path), MD5Hex(VisitOf(path).content))

\* the stored paths of a key, in the order they were sent on the channel
RECURSIVE StoredOf(_, _)
StoredOf(key, h) ==
    IF h = << >> THEN << >>
    ELSE (IF Head(h).mut = 1 /\ PathKey(Head(h).path) = key
          THEN <<Head(h).path>> ELSE << >>) \o StoredOf(key, Tail(h))

C21_WalkOrder ==
    numWorkers = 1 =>
        \A k \in DOMAIN fileMap : GroupSeq(fileMap[k]) = StoredOf(k, hist)

C21_Step ==
    /\ \A k \in DOMAIN fileMap :
          /\ k \in DOMAIN fileMap'
          /\ RootOnly(fileMap'[k]) = RootOnly(fileMap[k])
    /\ fileMap' # fileMap =>
          /\ fileMapMutex \in 1..numWorkers
          /\ \A k \in DOMAIN fileMap' \ {KeyOf(fileMapMutex)} :
                k \in DOMAIN fileMap /\ fileMap'[k] = fileMap[k]
          /\ IF KeyOf(fileMapMutex) \in DOMAIN fileMap
             THEN fileMap'[KeyOf(fileMapMutex)].Children
                     = Append(fileMap[KeyOf(fileMapMutex)].Children,
                              NewFileInfo(fileMapMutex))
             ELSE fileMap'[KeyOf(fileMapMutex)] = NewFileInfo(fileMapMutex)

C21_FirstLockerIsRoot == [](C21_WalkOrder) /\ [][C21_Step]_vars

\* two workers have stored three records of one key; the root is not the
\* path that was walked first
C21_Witness ==
    /\ numWorkers = 2
    /\ sourceDirs = <<D3>>
    /\ \E k \in DOMAIN fileMap :
          /\ Len(fileMap[k].Children) = 2
          /\ fileMap[k].Path # Join(D3, T_WAV)

\* ------------------------------------------------------------------------
\* C22 (as written): each filesystem path is in at most one record of the
\* forest, root or child, for every list of source directories, also one
\* that names a directory twice.
\* ------------------------------------------------------------------------
C22_Original ==
    \A p \in AllPaths : CountInMap(p) <= 1

\* ------------------------------------------------------------------------
\* C23: the number of queued paths never exceeds the channel capacity, and
\* under fair scheduling a run whose source directories can all be walked
\* gets from the start of the walk to the return of wg.Wait(): the producer
\* is never blocked forever on a full channel, the channel is closed, every
\* worker leaves its receive loop and the wait returns.
\* ------------------------------------------------------------------------
NoWalkFailure ==
    \A i \in 1..Len(sourceDirs) : WalkOrder(sourceDirs[i])[1].kind # "missing"

WaitReturned ==
    /\ chanClosed
    /\ fileChan = << >>
    /\ \A w \in 1..numWorkers : wpc[w] = "returned"
    /\ wg = 0
    /\ mainpc \notin {"walk", "close", "wait"}

C23_Terminates ==
    /\ [](Len(fileChan) <= ChanCap)
    /\ (mainpc = "walk" /\ NoWalkFailure) ~> WaitReturned

\* the producer is blocked: the channel is full and the walk has another
\* candidate to send
C23_Witness ==
    /\ mainpc = "walk"
    /\ Len(fileChan) = ChanCap
    /\ IsCandidate(CurVisit)

\* ------------------------------------------------------------------------
\* C24: every root is stored under the key of its own base filename and
\* hash, every child has the base filename and the hash of the root it is
\* attached to, and no two roots have the same (filename, hash) pair; the
\* key filename + "|" + hash is injective over filenames (also ones that
\* contain "|" or hex digits) paired with hex digests.
\* ------------------------------------------------------------------------
\* the digests of this file system: hex digits only, all of one length
KeyHashes == {MD5Hex("X"), MD5Hex("Y"), MD5Hex("")}

\* base filenames: those of this file system, and names that contain the
\* separator or end in what looks like a digest
KeyNames ==
    {Base(p) : p \in AllPaths}
    \cup { <<"a">>, <<"a", "|">>, <<"|">>, <<"a", "|", "0", "2", "1", "2">>,
           <<"a", "|", "5", "7", "c", "e">>, <<"0", "2", "1", "2">> }

KeyInjective ==
    \A f1, f2 \in KeyNames : \A h1, h2 \in KeyHashes :
        generateKey(f1, h1) = generateKey(f2, h2) => (f1 = f2 /\ h1 = h2)

====
